---- MODULE Spec2Model ----
(***************************************************************************)
(* cmng: command line credential manager for the nRF91 modem (src/cmng.py). *)
(* One run of the program: argument parsing and validation, the optional    *)
(* debug-probe session (pynrfjprog HighLevel), the AT channel (at.SoC) with  *)
(* the credential operation, and the exit paths.  Every call the program    *)
(* makes on a collaborator is appended to `calls`, with whether it returned *)
(* or raised.                                                               *)
(***************************************************************************)
EXTENDS Integers, Sequences, FiniteSets, TLC

(* ---------------- optional values: None is <<>>, a value v is <<v>> ---- *)
None == <<>>

Some(v) == <<v>>

(* Python truthiness of an optional int: None and 0 are false. *)
TruthyInt(o) == o # None /\ o[1] # 0

(* Python truthiness of an optional str: None and "" are false. *)
TruthyStr(o) == o # None /\ o[1] # ""

(* ---------------- program constants ------------------------------------ *)
FW_STARTUP_DELAY_S == 3

PREBUILT_HEX_PATH == "hex/merged.hex"

(* ---------------- bounds of the inputs --------------------------------- *)
MaxSecTag == 1

MaxCredType == 1

MaxSerial == 1

Operations == {"list", "read", "write", "delete"}

Suboperations == {None, Some("PSK"), Some("certs")}

(* Lines 92-95: type=int takes any integer; the help texts give the       *)
(* ranges [0, 2147483647] and [0, 5], and -1 lies outside both.            *)
SecTags == {None} \cup {Some(n) : n \in -1..MaxSecTag}

CredTypes == {None} \cup {Some(n) : n \in -1..MaxCredType}

Serials == 0..MaxSerial

SerialNumbers == {None} \cup {Some(n) : n \in Serials}

OptStr(s) == {None, Some(s)}

(* The modem's functional modes the run may meet: 0 power off, 1 normal,  *)
(* 4 flight mode.                                                          *)
CfunModes == {0, 1, 4}

(* The namespace argparse can produce (lines 86-120), over the bounded     *)
(* field values.                                                           *)
ArgFields ==
    [operation : Operations, suboperation : Suboperations,
     sec_tag : SecTags, cred_type : CredTypes,
     passwd : OptStr("pw"), psk : OptStr("FOOBAR"), psk_id : OptStr("nrf-foobar"),
     private_key : OptStr("key.pem"), ca_cert : OptStr("ca.pem"),
     client_cert : OptStr("client.pem"),
     content : {None, Some(""), Some("ABC")}, content_path : OptStr("cert.pem"),
     serial_number : SerialNumbers, program_hex : BOOLEAN,
     program_app : OptStr("app.hex"), power_off : BOOLEAN]

(* Fields the program never reads for the request at hand are left at      *)
(* their argparse default: psk/psk_id and the certificate paths are read   *)
(* only under `if args.suboperation` (lines 131-158); content,             *)
(* content_path and passwd only there and for a write (lines 159, 202-207). *)
UnreadFieldsDefault(a) ==
    /\ a.suboperation = None =>
          /\ a.psk = None /\ a.psk_id = None
          /\ a.private_key = None /\ a.ca_cert = None /\ a.client_cert = None
    /\ (a.suboperation = None /\ a.operation # "write") =>
          /\ a.content = None /\ a.content_path = None /\ a.passwd = None
    /\ (a.suboperation # None /\ a.operation # "write") =>
          /\ a.cred_type = None /\ a.passwd = None
          /\ a.psk = None /\ a.psk_id = None
          /\ a.private_key = None /\ a.ca_cert = None /\ a.client_cert = None
          /\ a.content = None /\ a.content_path = None
          /\ a.serial_number = None /\ ~a.program_hex
          /\ a.program_app = None /\ ~a.power_off

(* The namespaces of ArgFields that satisfy UnreadFieldsDefault, built     *)
(* slice by slice: a request without suboperation that is not a write, a   *)
(* plain write, a suboperation without a write (refused at line 132 after  *)
(* only sec_tag was read), and a write with a suboperation.                *)
Unset == {None}

ArgSpace ==
    [operation : Operations \ {"write"}, suboperation : Unset,
     sec_tag : SecTags, cred_type : CredTypes,
     passwd : Unset, psk : Unset, psk_id : Unset,
     private_key : Unset, ca_cert : Unset, client_cert : Unset,
     content : Unset, content_path : Unset,
     serial_number : SerialNumbers, program_hex : BOOLEAN,
     program_app : OptStr("app.hex"), power_off : BOOLEAN]
    \cup
    [operation : {"write"}, suboperation : Unset,
     sec_tag : SecTags, cred_type : CredTypes,
     passwd : OptStr("pw"), psk : Unset, psk_id : Unset,
     private_key : Unset, ca_cert : Unset, client_cert : Unset,
     content : {None, Some(""), Some("ABC")}, content_path : OptStr("cert.pem"),
     serial_number : SerialNumbers, program_hex : BOOLEAN,
     program_app : OptStr("app.hex"), power_off : BOOLEAN]
    \cup
    [operation : Operations \ {"write"}, suboperation : Suboperations \ Unset,
     sec_tag : SecTags, cred_type : Unset,
     passwd : Unset, psk : Unset, psk_id : Unset,
     private_key : Unset, ca_cert : Unset, client_cert : Unset,
     content : Unset, content_path : Unset,
     serial_number : Unset, program_hex : {FALSE},
     program_app : Unset, power_off : {FALSE}]
    \cup
    [operation : {"write"}, suboperation : Suboperations \ Unset,
     sec_tag : SecTags, cred_type : CredTypes,
     passwd : OptStr("pw"), psk : OptStr("FOOBAR"), psk_id : OptStr("nrf-foobar"),
     private_key : OptStr("key.pem"), ca_cert : OptStr("ca.pem"),
     client_cert : OptStr("client.pem"),
     content : {None, Some(""), Some("ABC")}, content_path : OptStr("cert.pem"),
     serial_number : SerialNumbers, program_hex : BOOLEAN,
     program_app : OptStr("app.hex"), power_off : BOOLEAN]

(* ---------------- argparse and the validator --------------------------- *)
(* The mutually exclusive group of lines 108-112: parse_args itself        *)
(* rejects --content together with --content_path.                         *)
MutuallyExclusiveOk(a) == a.content = None \/ a.content_path = None

(* SuboperationNotWriting with the check of lines 132-135 missing. *)
SuboperationNotWriting_Unchecked(a) == FALSE

(* Lines 131-132: a suboperation with an operation other than write. *)
SuboperationNotWriting(a) == a.suboperation # None /\ a.operation # "write"

(* ContentMissing with the check of lines 159-162 missing. *)
ContentMissing_Unchecked(a) == FALSE

(* Line 159: a write without a suboperation and without content. *)
ContentMissing(a) ==
    /\ a.suboperation = None
    /\ a.operation = "write"
    /\ ~(TruthyStr(a.content) \/ TruthyStr(a.content_path))

(* PskMaterialMissing with `and` for the `or` of line 141: refused only    *)
(* when both are missing.                                                  *)
PskMaterialMissing_BothOnly(a) == ~TruthyStr(a.psk) /\ ~TruthyStr(a.psk_id)

(* Line 141: not args.psk or not args.psk_id. *)
PskMaterialMissing(a) == ~TruthyStr(a.psk) \/ ~TruthyStr(a.psk_id)

(* Lines 123-167: the message of the first check that fails, "" when the   *)
(* namespace is returned.                                                  *)
ValidationError(a) ==
    IF a.sec_tag = None /\ a.operation # "list"
    THEN "sec_tag required for all operations except listing"
    ELSE IF a.cred_type = None /\ a.operation # "list" /\ a.suboperation = None
    THEN "cred_type required for all operations except listing"
    ELSE IF SuboperationNotWriting(a)
    THEN "suboperation only allowed when writing"
    ELSE IF a.suboperation # None
            /\ (TruthyStr(a.content) \/ TruthyStr(a.content_path) \/ TruthyInt(a.cred_type))
    THEN "invalid argument for suboperation"
    ELSE IF a.suboperation = Some("PSK") /\ PskMaterialMissing(a)
    THEN "PSK suboperation requires both --psk and --psk_id arguments"
    ELSE IF a.suboperation = Some("PSK")
            /\ (TruthyStr(a.passwd) \/ TruthyStr(a.ca_cert)
                \/ TruthyStr(a.private_key) \/ TruthyStr(a.client_cert))
    THEN "invalid argument for PSK suboperation"
    ELSE IF a.suboperation = Some("certs")
            /\ (~TruthyStr(a.passwd) \/ ~TruthyStr(a.ca_cert)
                \/ ~TruthyStr(a.private_key) \/ ~TruthyStr(a.client_cert))
    THEN "certs suboperation requires --passwd, --ca_cert, --private_key, and --client_cert."
    ELSE IF a.suboperation = Some("certs") /\ (TruthyStr(a.psk) \/ TruthyStr(a.psk_id))
    THEN "invalid argument for certs suboperation"
    ELSE IF ContentMissing(a)
    THEN "content or content_path is required when writing"
    ELSE IF TruthyInt(a.serial_number) /\ ~(a.program_hex \/ TruthyStr(a.program_app))
    THEN "serial number is pointless unless programming a hex file"
    ELSE ""

Valid(a) == MutuallyExclusiveOk(a) /\ ValidationError(a) = ""

(* ---------------- state ------------------------------------------------ *)
VARIABLES
    pc,               \* the statement the run is at
    args,             \* _main's args: None until _add_and_parse_args returns
    error,            \* the last "error: ..." line printed, "" when none
    status,           \* the exit status: None while the process runs
    calls,            \* every call made on a collaborator, in order
    cfun,             \* the modem's functional mode: None until the run reads it
    connected_serials,\* _connect_to_jlink's connected_serials
    nrfjprog_api,     \* _main's nrfjprog_api: FALSE while None
    nrfjprog_probe,   \* _main's nrfjprog_probe: None or the probe's serial
    caller,           \* the call of _write_firmware under way: "pre" (line 223), "post" (line 230)
    soc,              \* _communicate's soc: FALSE while None
    raised            \* an exception is propagating out of _communicate's try

vars == <<pc, args, error, status, calls, cfun, connected_serials,
          nrfjprog_api, nrfjprog_probe, caller, soc, raised>>

Init ==
    /\ pc = "parse"
    /\ args = None
    /\ error = ""
    /\ status = None
    /\ calls = <<>>
    /\ cfun = None
    /\ connected_serials = {}
    /\ nrfjprog_api = FALSE
    /\ nrfjprog_probe = None
    /\ caller = "none"
    /\ soc = FALSE
    /\ raised = FALSE

(* An entry of `calls`: the call, its arguments (for a getter, the value   *)
(* it returned) and whether it returned (TRUE) or raised (FALSE).          *)
Call(name, a, ok) == [call |-> name, arg |-> a, ok |-> ok]

(* Line 219: args.program_hex or args.program_app. *)
Flashing(a) == a.program_hex \/ TruthyStr(a.program_app)

(* Lines 222-227: after the probe session is set up (or skipped), the      *)
(* pre-flash when program_hex is set, else _communicate.                   *)
AfterConnect(a) == IF a.program_hex THEN "program" ELSE "soc_open"

AfterConnectCaller(a) == IF a.program_hex THEN "pre" ELSE "none"

(* PowerOffWanted without the test of the operation (line 184). *)
PowerOffWanted_AnyOperation(a) == a.power_off

(* Lines 183-185: the power-off step runs for delete and write only. *)
PowerOffWanted(a) == a.power_off /\ a.operation \in {"delete", "write"}

(* Rejected with the sys.exit(-1) of the last check (line 166) missing:    *)
(* the message is printed and args is returned.                            *)
Rejected_SerialCheckReturns(a) ==
    ValidationError(a) \notin
        {"", "serial number is pointless unless programming a hex file"}

(* Lines 123-166: every failing check prints its message and calls        *)
(* sys.exit(-1).                                                           *)
Rejected(a) == ValidationError(a) # ""

(* Lines 122-167 and 215-221: parse_args, the checks, the return to _main, *)
(* and _main's branch on the flashing options.                             *)
AddAndParseArgs ==
    /\ pc = "parse"
    /\ \E a \in ArgSpace :
          IF ~MutuallyExclusiveOk(a)
          THEN /\ error' = "not allowed with argument"
               /\ status' = Some(2)
               /\ pc' = "exited"
               /\ UNCHANGED <<args, caller>>
          ELSE IF Rejected(a)
          THEN /\ error' = ValidationError(a)
               /\ status' = Some(-1)
               /\ pc' = "exited"
               /\ UNCHANGED <<args, caller>>
          ELSE /\ args' = Some(a)
               /\ pc' = IF Flashing(a) THEN "jlink_open" ELSE AfterConnect(a)
               /\ caller' = IF Flashing(a) THEN "none" ELSE AfterConnectCaller(a)
               /\ UNCHANGED <<error, status>>
    /\ UNCHANGED <<calls, cfun, connected_serials, nrfjprog_api,
                   nrfjprog_probe, soc, raised>>

(* ---------------- _connect_to_jlink ------------------------------------ *)
(* Lines 52-53: HighLevel.API() and api.open(). *)
ApiOpen ==
    /\ pc = "jlink_open"
    /\ \E ok \in BOOLEAN :
          /\ calls' = Append(calls, Call("api.open", <<>>, ok))
          /\ pc' = IF ok THEN "jlink_probes" ELSE "except"
    /\ UNCHANGED <<args, error, status, cfun, connected_serials, nrfjprog_api,
                   nrfjprog_probe, caller, soc, raised>>

(* Line 54: api.get_connected_probes(). *)
GetConnectedProbes ==
    /\ pc = "jlink_probes"
    /\ \/ \E found \in SUBSET Serials :
             /\ calls' = Append(calls, Call("api.get_connected_probes", <<found>>, TRUE))
             /\ connected_serials' = found
             /\ pc' = "jlink_select"
       \/ /\ calls' = Append(calls, Call("api.get_connected_probes", <<>>, FALSE))
          /\ pc' = "except"
          /\ UNCHANGED connected_serials
    /\ UNCHANGED <<args, error, status, cfun, nrfjprog_api, nrfjprog_probe,
                   caller, soc, raised>>

(* Lines 55-57: the candidates left after the serial_number filter. *)
Candidates(a, found) ==
    IF TruthyInt(a.serial_number) /\ a.serial_number[1] \in found
    THEN {a.serial_number[1]}
    ELSE found

(* Lines 55-66: the message of the selection failure, "" when exactly one  *)
(* candidate is left.                                                      *)
SelectError(a, found) ==
    IF TruthyInt(a.serial_number) /\ a.serial_number[1] \notin found
    THEN "serial_number not found"
    ELSE IF Candidates(a, found) = {}
    THEN "no debug probes found"
    ELSE IF Cardinality(Candidates(a, found)) > 1
    THEN "multiple debug probes found, use --serial_number"
    ELSE ""

(* Lines 55-66: the selection; on failure _close_and_exit(api, -1), lines  *)
(* 43-47: sys.exit raises SystemExit, which `except Exception` (line 233)  *)
(* does not catch; an exception of api.close() it does.                    *)
SelectProbe ==
    /\ pc = "jlink_select"
    /\ LET a == args[1] IN
       IF SelectError(a, connected_serials) # ""
       THEN /\ error' = SelectError(a, connected_serials)
            /\ \E ok \in BOOLEAN :
                  /\ calls' = Append(calls, Call("api.close", <<>>, ok))
                  /\ pc' = IF ok THEN "exited" ELSE "except"
                  /\ status' = IF ok THEN Some(-1) ELSE status
            /\ UNCHANGED connected_serials
       ELSE /\ connected_serials' = Candidates(a, connected_serials)
            /\ pc' = "jlink_probe"
            /\ UNCHANGED <<error, status, calls>>
    /\ UNCHANGED <<args, cfun, nrfjprog_api, nrfjprog_probe, caller, soc, raised>>

(* Lines 67-68 and 220: HighLevel.DebugProbe(api, connected_serials[0]),   *)
(* the return, and _main's assignment of nrfjprog_api and nrfjprog_probe.  *)
CreateDebugProbe ==
    /\ pc = "jlink_probe"
    /\ LET serial == CHOOSE s \in connected_serials : TRUE IN
       \E ok \in BOOLEAN :
          /\ calls' = Append(calls, Call("HighLevel.DebugProbe", <<serial>>, ok))
          /\ IF ok
             THEN /\ nrfjprog_api' = TRUE
                  /\ nrfjprog_probe' = Some(serial)
                  /\ pc' = AfterConnect(args[1])
                  /\ caller' = AfterConnectCaller(args[1])
             ELSE /\ pc' = "except"
                  /\ UNCHANGED <<nrfjprog_api, nrfjprog_probe, caller>>
    /\ UNCHANGED <<args, error, status, cfun, connected_serials, soc, raised>>

(* ---------------- _write_firmware -------------------------------------- *)
(* Lines 223 and 230: the image of the call under way. *)
FwHex == IF caller = "pre" THEN PREBUILT_HEX_PATH ELSE args[1].program_app[1]

(* Line 38: nrfjprog_probe.program(fw_hex). *)
Program ==
    /\ pc = "program"
    /\ \E ok \in BOOLEAN :
          /\ calls' = Append(calls, Call("probe.program", <<FwHex>>, ok))
          /\ pc' = IF ok THEN "verify" ELSE "except"
    /\ UNCHANGED <<args, error, status, cfun, connected_serials, nrfjprog_api,
                   nrfjprog_probe, caller, soc, raised>>

(* Line 39: nrfjprog_probe.verify(fw_hex). *)
Verify ==
    /\ pc = "verify"
    /\ \E ok \in BOOLEAN :
          /\ calls' = Append(calls, Call("probe.verify", <<FwHex>>, ok))
          /\ pc' = IF ok THEN "reset" ELSE "except"
    /\ UNCHANGED <<args, error, status, cfun, connected_serials, nrfjprog_api,
                   nrfjprog_probe, caller, soc, raised>>

(* AfterWriteFirmware without the time.sleep of line 225. *)
AfterWriteFirmware_NoDelay(c) == IF c = "pre" THEN "soc_open" ELSE "exit0"

(* Lines 223-227 and 230-232: where _write_firmware returns to: the       *)
(* settle delay after the pre-flash, _close_and_exit after the post-flash. *)
AfterWriteFirmware(c) == IF c = "pre" THEN "sleep" ELSE "exit0"

(* Line 40: nrfjprog_probe.reset(), and the return to line 225 or 232. *)
Reset ==
    /\ pc = "reset"
    /\ \E ok \in BOOLEAN :
          /\ calls' = Append(calls, Call("probe.reset", <<>>, ok))
          /\ pc' = IF ok THEN AfterWriteFirmware(caller) ELSE "except"
          /\ caller' = IF ok /\ AfterWriteFirmware(caller) # "sleep" THEN "none" ELSE caller
    /\ UNCHANGED <<args, error, status, cfun, connected_serials, nrfjprog_api,
                   nrfjprog_probe, soc, raised>>

(* Line 225: time.sleep(FW_STARTUP_DELAY_S). *)
Sleep ==
    /\ pc = "sleep"
    /\ calls' = Append(calls, Call("time.sleep", <<FW_STARTUP_DELAY_S>>, TRUE))
    /\ pc' = "soc_open"
    /\ caller' = "none"
    /\ UNCHANGED <<args, error, status, cfun, connected_serials, nrfjprog_api,
                   nrfjprog_probe, soc, raised>>

(* ---------------- _communicate ----------------------------------------- *)
(* Lines 179-185: soc = at.SoC(args.port), then the power_off branch. *)
SocOpen ==
    /\ pc = "soc_open"
    /\ \E ok \in BOOLEAN :
          /\ calls' = Append(calls, Call("at.SoC", <<>>, ok))
          /\ soc' = ok
          /\ raised' = ~ok
          /\ pc' = IF ~ok THEN "finally"
                   ELSE IF PowerOffWanted(args[1]) THEN "power_get" ELSE "dispatch"
    /\ UNCHANGED <<args, error, status, cfun, connected_serials, nrfjprog_api,
                   nrfjprog_probe, caller>>

(* PoweredOn as `if mode != 0`: any mode but power-off. *)
PoweredOn_NotOff(mode) == mode # 0

(* Line 74: if mode == 1. *)
PoweredOn(mode) == mode = 1

(* Lines 73-74: mode = soc.get_functional_mode(); if mode == 1. *)
GetFunctionalMode ==
    /\ pc = "power_get"
    /\ \/ \E mode \in CfunModes :
             /\ calls' = Append(calls, Call("soc.get_functional_mode", <<mode>>, TRUE))
             /\ cfun' = Some(mode)
             /\ pc' = IF PoweredOn(mode) THEN "power_set" ELSE "dispatch"
             /\ UNCHANGED raised
       \/ /\ calls' = Append(calls, Call("soc.get_functional_mode", <<>>, FALSE))
          /\ raised' = TRUE
          /\ pc' = "finally"
          /\ UNCHANGED cfun
    /\ UNCHANGED <<args, error, status, connected_serials, nrfjprog_api,
                   nrfjprog_probe, caller, soc>>

(* Line 75: soc.set_functional_mode(0).  When the call raises the modem    *)
(* may or may not have switched.                                           *)
SetFunctionalMode ==
    /\ pc = "power_set"
    /\ \/ /\ calls' = Append(calls, Call("soc.set_functional_mode", <<0>>, TRUE))
          /\ cfun' = Some(0)
          /\ pc' = "dispatch"
          /\ UNCHANGED raised
       \/ /\ calls' = Append(calls, Call("soc.set_functional_mode", <<0>>, FALSE))
          /\ cfun' \in {cfun, Some(0)}
          /\ raised' = TRUE
          /\ pc' = "finally"
    /\ UNCHANGED <<args, error, status, connected_serials, nrfjprog_api,
                   nrfjprog_probe, caller, soc>>

(* Lines 202-206: the content written: the file's text when content_path   *)
(* is given, else args.content.                                            *)
FileText(path) == <<"text of", path>>

(* Lines 187-207: the calls of the dispatch on args.operation, in order:   *)
(* the credential call of the request, preceded by the file read for a    *)
(* write from content_path (line 204); none at all for a write with a     *)
(* suboperation (lines 199-200: pass).                                     *)
DispatchCalls(a) ==
    CASE a.operation = "list" ->
            <<Call("soc.list_credentials", <<a.sec_tag, a.cred_type>>, TRUE)>>
      [] a.operation = "read" ->
            <<Call("soc.read_credential", <<a.sec_tag, a.cred_type>>, TRUE)>>
      [] a.operation = "delete" ->
            <<Call("soc.delete_credential", <<a.sec_tag, a.cred_type>>, TRUE)>>
      [] OTHER ->
            IF a.suboperation # None
            THEN <<>>
            ELSE IF TruthyStr(a.content_path)
            THEN <<Call("_read_cert_file", <<a.content_path[1]>>, TRUE),
                   Call("soc.write_credential",
                        <<a.sec_tag, a.cred_type,
                          Some(FileText(a.content_path[1])), a.passwd>>, TRUE)>>
            ELSE <<Call("soc.write_credential",
                        <<a.sec_tag, a.cred_type, a.content, a.passwd>>, TRUE)>>

(* Lines 187-207: the dispatch: every call returns, or one of them raises  *)
(* and the rest is not made.                                               *)
Dispatch ==
    /\ pc = "dispatch"
    /\ LET todo == DispatchCalls(args[1]) IN
       \/ /\ calls' = calls \o todo
          /\ UNCHANGED raised
       \/ \E k \in DOMAIN todo :
             /\ calls' = calls \o SubSeq(todo, 1, k - 1)
                               \o <<[todo[k] EXCEPT !.ok = FALSE]>>
             /\ raised' = TRUE
    /\ pc' = "finally"
    /\ UNCHANGED <<args, error, status, cfun, connected_serials, nrfjprog_api,
                   nrfjprog_probe, caller, soc>>

(* ClosesChannel as it would be without the finally clause: the channel   *)
(* is closed on the normal path only.                                      *)
ClosesChannel_OnlyOnSuccess(s, r) == s /\ ~r

(* ClosesChannel as it would be with an except clause in place of the     *)
(* finally clause: the channel is closed only while an exception is        *)
(* propagating.                                                            *)
ClosesChannel_OnlyOnRaise(s, r) == s /\ r

(* Lines 208-209: the finally clause runs whether or not an exception is   *)
(* propagating, and closes the channel `if soc`.                           *)
ClosesChannel(s, r) == s

(* Lines 227-232: after _communicate returns, the post-flash when          *)
(* program_app is set, else _close_and_exit(nrfjprog_api, 0).              *)
AfterCommunicate(a) == IF TruthyStr(a.program_app) THEN "program" ELSE "exit0"

(* Lines 208-210 and 227-232: the finally clause, then the exception goes  *)
(* on to line 233 or _main goes on to the post-flash or to line 232.       *)
Finally ==
    /\ pc = "finally"
    /\ \E ok \in (IF ClosesChannel(soc, raised) THEN BOOLEAN ELSE {TRUE}) :
          /\ calls' = IF ClosesChannel(soc, raised)
                      THEN Append(calls, Call("soc.close", <<>>, ok)) ELSE calls
          /\ pc' = IF raised \/ ~ok THEN "except" ELSE AfterCommunicate(args[1])
          /\ caller' = IF ~(raised \/ ~ok) /\ AfterCommunicate(args[1]) = "program"
                       THEN "post" ELSE caller
    /\ raised' = FALSE
    /\ UNCHANGED <<args, error, status, cfun, connected_serials, nrfjprog_api,
                   nrfjprog_probe, soc>>

(* ---------------- the exits -------------------------------------------- *)
(* Line 232, with lines 43-47: _close_and_exit(nrfjprog_api, 0). *)
CloseAndExit0 ==
    /\ pc = "exit0"
    /\ \E ok \in (IF nrfjprog_api THEN BOOLEAN ELSE {TRUE}) :
          /\ calls' = IF nrfjprog_api THEN Append(calls, Call("api.close", <<>>, ok))
                      ELSE calls
          /\ pc' = IF ok THEN "exited" ELSE "except"
          /\ status' = IF ok THEN Some(0) ELSE status
    /\ UNCHANGED <<args, error, cfun, connected_serials, nrfjprog_api,
                   nrfjprog_probe, caller, soc, raised>>

(* Lines 233-235, with lines 43-47: the handler prints the error and calls *)
(* _close_and_exit(nrfjprog_api, -1); an exception of that close is        *)
(* uncaught and the interpreter exits with status 1.                       *)
ExceptHandler ==
    /\ pc = "except"
    /\ error' = "error: exception"
    /\ \E ok \in (IF nrfjprog_api THEN BOOLEAN ELSE {TRUE}) :
          /\ calls' = IF nrfjprog_api THEN Append(calls, Call("api.close", <<>>, ok))
                      ELSE calls
          /\ status' = IF ok THEN Some(-1) ELSE Some(1)
    /\ pc' = "exited"
    /\ UNCHANGED <<args, cfun, connected_serials, nrfjprog_api,
                   nrfjprog_probe, caller, soc, raised>>

(* ---------------- the validator alone ---------------------------------- *)
(* The namespaces the validator is applied to: every field it reads takes *)
(* the values it tells apart (absent, given but false in Python, given).  *)
(* sec_tag is only tested against None (line 123) and power_off is not    *)
(* read.                                                                   *)
CheckedFields ==
    [operation : Operations, suboperation : Suboperations,
     sec_tag : {None, Some(0)}, cred_type : CredTypes,
     passwd : {None, Some(""), Some("pw")},
     psk : {None, Some(""), Some("FOOBAR")}, psk_id : OptStr("nrf-foobar"),
     private_key : OptStr("key.pem"), ca_cert : OptStr("ca.pem"),
     client_cert : OptStr("client.pem"),
     content : {None, Some(""), Some("ABC")}, content_path : OptStr("cert.pem"),
     serial_number : SerialNumbers, program_hex : BOOLEAN,
     program_app : OptStr("app.hex"), power_off : {FALSE}]

(* Line 122: args = parser.parse_args() has returned. *)
InitV ==
    /\ pc = "check"
    /\ args \in {Some(a) : a \in {f \in CheckedFields : MutuallyExclusiveOk(f)}}
    /\ error = ""
    /\ status = None
    /\ calls = <<>>
    /\ cfun = None
    /\ connected_serials = {}
    /\ nrfjprog_api = FALSE
    /\ nrfjprog_probe = None
    /\ caller = "none"
    /\ soc = FALSE
    /\ raised = FALSE

(* Lines 123-167: the checks on the parsed namespace: the first failing   *)
(* one prints its message and exits with -1, else args is returned.       *)
CheckArgs ==
    /\ pc = "check"
    /\ IF Rejected(args[1])
       THEN /\ error' = ValidationError(args[1])
            /\ status' = Some(-1)
            /\ pc' = "exited"
       ELSE /\ pc' = "returned"
            /\ UNCHANGED <<error, status>>
    /\ UNCHANGED <<args, calls, cfun, connected_serials, nrfjprog_api,
                   nrfjprog_probe, caller, soc, raised>>

NextV == CheckArgs

SpecV == InitV /\ [][NextV]_vars

(* ======================= properties ==================================== *)
(* The positions in `calls` of the calls of one name. *)
Indices(name) == {i \in DOMAIN calls : calls[i].call = name}

Count(name) == Cardinality(Indices(name))

(* The positions of the calls of one name that returned. *)
Returned(name) == {i \in Indices(name) : calls[i].ok}

Exited == pc = "exited"

ExitedWith(s) == pc = "exited" /\ status = Some(s)

CredentialCallNames ==
    {"soc.list_credentials", "soc.read_credential",
     "soc.write_credential", "soc.delete_credential"}

CredentialCallOf(op) ==
    CASE op = "list" -> "soc.list_credentials"
      [] op = "read" -> "soc.read_credential"
      [] op = "write" -> "soc.write_credential"
      [] op = "delete" -> "soc.delete_credential"

(* The positions of the credential-store calls. *)
CredentialIndices == {i \in DOMAIN calls : calls[i].call \in CredentialCallNames}

(* C1: a run of a validated request that exits with status 0 has made     *)
(* exactly one credential-store call, of the requested kind, with the     *)
(* requested sec_tag, and it returned; so does a write with suboperation  *)
(* PSK or certs.                                                           *)
C1_ExitZeroIssuedOneCredentialCall ==
    ExitedWith(0) =>
        /\ Cardinality(CredentialIndices) = 1
        /\ \A i \in CredentialIndices :
              /\ calls[i].call = CredentialCallOf(args[1].operation)
              /\ calls[i].arg[1] = args[1].sec_tag
              /\ calls[i].ok

(* C2: once the debug-probe connection has been opened, a run that has    *)
(* exited has called its close exactly once, on every exit path.          *)
C2_ProbeConnectionClosedExactlyOnce ==
    (Exited /\ Returned("api.open") # {}) => Count("api.close") = 1

(* C3: the credential channel is opened at most once per run, and once    *)
(* it was opened and the run has left _communicate (whatever raised       *)
(* inside it, and whatever the post-flash does after it) its close has    *)
(* been called exactly once; close is never called on a channel that was  *)
(* not opened.                                                             *)
C3_ChannelClosedExactlyOnce ==
    /\ Count("at.SoC") <= 1
    /\ Count("soc.close") <= 1
    /\ \A i \in Indices("soc.close") : \E j \in Returned("at.SoC") : j < i
    /\ (Returned("at.SoC") # {}
        /\ pc \notin {"power_get", "power_set", "dispatch", "finally"})
          => Count("soc.close") = 1

(* A run that opened the channel, whose credential call raised, and that  *)
(* has exited with the channel closed.                                     *)
C3_Witness ==
    /\ ExitedWith(-1)
    /\ Returned("at.SoC") # {}
    /\ \E i \in CredentialIndices : ~calls[i].ok
    /\ Count("soc.close") = 1

(* C4: an input the validator rejects ends the run with status -1 before  *)
(* anything is opened or called: no call has been made, no probe          *)
(* connection and no channel is held, and only a request that passes      *)
(* every check goes on into _main.                                         *)
C4_RejectedExitsBeforeAnyResource ==
    /\ args # None => Valid(args[1])
    /\ args = None =>
          /\ pc \in {"parse", "exited"}
          /\ calls = <<>>
          /\ ~nrfjprog_api
          /\ ~soc
    /\ (Exited /\ args = None /\ error # "not allowed with argument")
          => status = Some(-1)

(* A run rejected by the last check of the validator. *)
C4_Witness ==
    /\ ExitedWith(-1)
    /\ args = None
    /\ error = "serial number is pointless unless programming a hex file"
    /\ calls = <<>>

CloseCallNames == {"soc.close", "api.close"}

(* The positions of the calls of the sequence's steps that raised. *)
RaisedSteps == {i \in DOMAIN calls : ~calls[i].ok /\ calls[i].call \notin CloseCallNames}

(* C5: once a step of the sequence has raised, only close calls follow    *)
(* (nothing later runs, nothing is retried) and the run exits with        *)
(* status -1; a run exits with status 0 only if no call raised.           *)
C5_RaiseAbortsAndExitsMinusOne ==
    /\ \A i \in RaisedSteps :
          \A j \in DOMAIN calls : j > i => calls[j].call \in CloseCallNames
    /\ (Exited /\ RaisedSteps # {}) => status = Some(-1)
    /\ ExitedWith(0) => \A i \in DOMAIN calls : calls[i].ok

(* The probes api.get_connected_probes() returned, once it has. *)
FoundProbes == calls[CHOOSE i \in Returned("api.get_connected_probes") : TRUE].arg[1]

(* The acquisition the claim describes: the given serial_number is        *)
(* connected or, with none given, exactly one probe is connected.         *)
AcquisitionExpected(a, found) ==
    IF a.serial_number # None
    THEN a.serial_number[1] \in found
    ELSE Cardinality(found) = 1

(* C6: once the probes are known and the selection is made, a probe is    *)
(* selected exactly when the given serial_number is connected or, with    *)
(* none given, exactly one probe is connected; otherwise the run makes    *)
(* no program call, opens no channel, makes no credential call, and       *)
(* exits with status -1.                                                   *)
C6_AcquisitionFailsClosed ==
    (Returned("api.get_connected_probes") # {} /\ pc # "jlink_select") =>
        LET expected == AcquisitionExpected(args[1], FoundProbes)
            selected == pc = "jlink_probe" \/ Count("HighLevel.DebugProbe") > 0
        IN  /\ selected <=> expected
            /\ ~expected =>
                  /\ Count("probe.program") = 0
                  /\ Count("at.SoC") = 0
                  /\ CredentialIndices = {}
                  /\ Exited => status = Some(-1)

GetMode == "soc.get_functional_mode"

SetMode == "soc.set_functional_mode"

(* C7: with power_off on a delete or a write, the functional mode is read *)
(* at most once, right after the channel is opened; set_functional_mode(0) *)
(* is called at most once, right after a read that returned the           *)
(* powered-on mode 1, and after every such read; and every credential     *)
(* call comes after the read and after the set the read called for.       *)
C7_PowerOffBeforeDeleteOrWrite ==
    (args # None /\ args[1].power_off /\ args[1].operation \in {"delete", "write"}) =>
        /\ Count(GetMode) <= 1
        /\ Count(SetMode) <= 1
        /\ \A i \in Indices(GetMode) : i > 1 /\ calls[i - 1] = Call("at.SoC", <<>>, TRUE)
        /\ \A i \in Indices(SetMode) :
              /\ i > 1
              /\ calls[i - 1] = Call(GetMode, <<1>>, TRUE)
              /\ calls[i].arg = <<0>>
        /\ \A i \in Returned(GetMode) :
              calls[i].arg = <<1>> =>
                 \/ i = Len(calls) /\ pc = "power_set"
                 \/ i < Len(calls) /\ calls[i + 1].call = SetMode
        /\ \A i \in CredentialIndices \cup Indices("_read_cert_file") :
              \E j \in Returned(GetMode) :
                 /\ j < i
                 /\ calls[j].arg = <<1>> => (j + 1 < i /\ calls[j + 1] = Call(SetMode, <<0>>, TRUE))
        /\ pc = "dispatch" => Returned(GetMode) # {}

(* A delete with power_off that found the modem on, switched it off,      *)
(* deleted and exited 0.                                                   *)
C7_Witness ==
    /\ ExitedWith(0)
    /\ args[1].operation = "delete"
    /\ args[1].power_off
    /\ \E i \in Returned(SetMode) : \E j \in Returned("soc.delete_credential") : i < j

(* C8: a list or a read (with or without power_off) and a delete or a     *)
(* write without power_off never call get_functional_mode or              *)
(* set_functional_mode: the run leaves the functional mode alone.         *)
C8_NoPowerModeCallsOtherwise ==
    (args # None /\ ~(args[1].power_off /\ args[1].operation \in {"delete", "write"})) =>
        /\ Count(GetMode) = 0
        /\ Count(SetMode) = 0
        /\ cfun = None

(* A read with power_off that made its credential call and exited 0. *)
C8_Witness ==
    /\ ExitedWith(0)
    /\ args[1].operation = "read"
    /\ args[1].power_off
    /\ Returned("soc.read_credential") # {}

(* C9: the post-flash (_write_firmware called from line 230, and each of  *)
(* its program calls made after the channel was opened) starts only after *)
(* the requested credential call was made and returned; for a write, with *)
(* or without a suboperation, only after a write call that returned.      *)
C9_PostFlashOnlyAfterCredentialCall ==
    LET done(n) == \E k \in CredentialIndices :
                      /\ k < n
                      /\ calls[k].call = CredentialCallOf(args[1].operation)
                      /\ calls[k].ok
    IN  /\ caller = "post" => done(Len(calls) + 1)
        /\ \A i \in Indices("probe.program") :
              (\E j \in Indices("at.SoC") : j < i) => done(i)

(* C10: with program_hex, the channel is opened only right after          *)
(* program(bundled image), verify(bundled image), reset and the settle    *)
(* delay of 3, each having returned, in this order.                        *)
C10_PreFlashThenDelayBeforeChannel ==
    (args # None /\ args[1].program_hex) =>
        \A i \in Indices("at.SoC") :
           /\ i > 4
           /\ calls[i - 4] = Call("probe.program", <<"hex/merged.hex">>, TRUE)
           /\ calls[i - 3] = Call("probe.verify", <<"hex/merged.hex">>, TRUE)
           /\ calls[i - 2] = Call("probe.reset", <<>>, TRUE)
           /\ calls[i - 1] = Call("time.sleep", <<3>>, TRUE)

(* A run with program_hex that opened the channel and exited 0. *)
C10_Witness ==
    /\ ExitedWith(0)
    /\ args[1].program_hex
    /\ Returned("at.SoC") # {}

(* ---------------- the validator's outcome (SpecV) ---------------------- *)
(* The checks have run on args[1]. *)
Checked == pc \in {"returned", "exited"}

(* The validator returned args. *)
Accepted == pc = "returned"

(* The validator printed an error and exited with -1. *)
Refused == pc = "exited" /\ status = Some(-1) /\ error # ""

(* A field was given on the command line, whatever its value. *)
Given(o) == o # None

(* C11: whenever a suboperation is given and the operation is not write,  *)
(* validation fails, whatever the other fields hold.                      *)
C11_SuboperationOnlyWhenWriting ==
    (Checked /\ Given(args[1].suboperation) /\ args[1].operation # "write")
        => Refused

(* A read with suboperation PSK, complete in every other respect, refused *)
(* by the suboperation check.                                              *)
C11_Witness ==
    /\ Refused
    /\ error = "suboperation only allowed when writing"
    /\ args[1].operation = "read"
    /\ args[1].suboperation = Some("PSK")
    /\ Given(args[1].sec_tag)
    /\ TruthyStr(args[1].psk) /\ TruthyStr(args[1].psk_id)

(* C12: with a suboperation, validation refuses every input in which      *)
(* content, content_path or cred_type is given, whatever the value given  *)
(* (cred_type 0 and the empty content string included).                   *)
C12_SuboperationExcludesContentAndCredType ==
    (Checked /\ Given(args[1].suboperation)
     /\ (Given(args[1].content) \/ Given(args[1].content_path) \/ Given(args[1].cred_type)))
        => Refused

(* The serial-number rule as stated: a serial_number is given only with a *)
(* flashing option.                                                        *)
SerialRuleSatisfied(a) ==
    Given(a.serial_number) => (a.program_hex \/ Given(a.program_app))

C14_SerialNumberNeedsFlashing ==
    /\ (Checked /\ Given(args[1].serial_number)
        /\ ~args[1].program_hex /\ ~Given(args[1].program_app)) => Refused
    /\ (Accepted /\ Given(args[1].serial_number))
          => (args[1].program_hex \/ Given(args[1].program_app))

(* The payload variants given on the command line: raw content, content   *)
(* from a file, PSK material, certificate material.                       *)
VariantsGiven(a) ==
    {v \in {"content", "content_path", "psk", "certs"} :
        \/ v = "content" /\ Given(a.content)
        \/ v = "content_path" /\ Given(a.content_path)
        \/ v = "psk" /\ (Given(a.psk) \/ Given(a.psk_id))
        \/ v = "certs" /\ (Given(a.ca_cert) \/ Given(a.private_key) \/ Given(a.client_cert))}

(* The variants a suboperation allows. *)
VariantsFor(sub) ==
    IF sub = Some("PSK") THEN {"psk"}
    ELSE IF sub = Some("certs") THEN {"certs"}
    ELSE {"content", "content_path"}

InRange(o, lo, hi) == o = None \/ (lo <= o[1] /\ o[1] <= hi)

(* C16: every credential call is made for a validated request whose       *)
(* sec_tag is within [0, 2147483647] and whose cred_type, when given, is  *)
(* within [0, 5], and carries these values.                               *)
C16_TagAndTypeInRange ==
    \A i \in CredentialIndices :
       /\ InRange(args[1].sec_tag, 0, 2147483647)
       /\ InRange(args[1].cred_type, 0, 5)
       /\ InRange(calls[i].arg[1], 0, 2147483647)
       /\ InRange(calls[i].arg[2], 0, 5)

(* The calls that change the modem's credential store or its mode. *)
ModifyingCallNames == {"soc.write_credential", "soc.delete_credential", SetMode}

(* C17: a list run makes no write, delete or set-functional-mode call,    *)
(* whatever its other options: the only credential call it makes is       *)
(* list_credentials, at most once, so the store it leaves is the store it *)
(* found and a second run with the same arguments reads the same store.   *)
C17_ListMakesNoModifyingCall ==
    (args # None /\ args[1].operation = "list") =>
        /\ \A i \in DOMAIN calls : calls[i].call \notin ModifyingCallNames
        /\ CredentialIndices \subseteq Indices("soc.list_credentials")
        /\ Count("soc.list_credentials") <= 1

(* A list run with --power_off that listed the credentials and exited 0. *)
C17_Witness ==
    /\ ExitedWith(0)
    /\ args[1].operation = "list"
    /\ args[1].power_off
    /\ Returned("soc.list_credentials") # {}

(* The rules of the validator a request violates, each read by presence:  *)
(* a field is present when it was given, whatever its value.              *)
RulesViolated(a) ==
    {n \in 1..8 :
        \/ n = 1 /\ ~Given(a.sec_tag) /\ a.operation # "list"
        \/ n = 2 /\ ~Given(a.cred_type) /\ a.operation # "list"
                 /\ ~Given(a.suboperation)
        \/ n = 3 /\ Given(a.suboperation) /\ a.operation # "write"
        \/ n = 4 /\ Given(a.suboperation)
                 /\ (Given(a.content) \/ Given(a.content_path) \/ Given(a.cred_type))
        \/ n = 5 /\ a.suboperation = Some("PSK")
                 /\ (~Given(a.psk) \/ ~Given(a.psk_id) \/ Given(a.passwd)
                     \/ Given(a.ca_cert) \/ Given(a.private_key)
                     \/ Given(a.client_cert))
        \/ n = 6 /\ a.suboperation = Some("certs")
                 /\ (~Given(a.passwd) \/ ~Given(a.ca_cert) \/ ~Given(a.private_key)
                     \/ ~Given(a.client_cert) \/ Given(a.psk) \/ Given(a.psk_id))
        \/ n = 7 /\ ~Given(a.suboperation) /\ a.operation = "write"
                 /\ (Given(a.content) <=> Given(a.content_path))
        \/ n = 8 /\ ~SerialRuleSatisfied(a)}

(* The rule an error message of the validator reports. *)
RuleOfError(e) ==
    CASE e = "sec_tag required for all operations except listing" -> 1
      [] e = "cred_type required for all operations except listing" -> 2
      [] e = "suboperation only allowed when writing" -> 3
      [] e = "invalid argument for suboperation" -> 4
      [] e \in {"PSK suboperation requires both --psk and --psk_id arguments",
                "invalid argument for PSK suboperation"} -> 5
      [] e \in {"certs suboperation requires --passwd, --ca_cert, --private_key, and --client_cert.",
                "invalid argument for certs suboperation"} -> 6
      [] e = "content or content_path is required when writing" -> 7
      [] e = "serial number is pointless unless programming a hex file" -> 8
      [] OTHER -> 0

(* C18: a request is accepted iff it violates none of the eight rules,    *)
(* and a refused request is reported with the error of the lowest-        *)
(* numbered rule it violates.                                             *)
C18_FirstViolatedRuleWins ==
    Checked =>
        LET violated == RulesViolated(args[1]) IN
        /\ Accepted <=> violated = {}
        /\ Refused =>
              /\ RuleOfError(error) \in violated
              /\ \A n \in violated : RuleOfError(error) <= n

(* The number of flashing options set in a request. *)
FlashingOptionsSet(a) ==
    (IF a.program_hex THEN 1 ELSE 0) + (IF Given(a.program_app) THEN 1 ELSE 0)

(* The positions at which a program + verify + reset sequence of the      *)
(* image hex starts, each call having returned.                           *)
FlashSequences(hex) ==
    {i \in Indices("probe.program") :
        /\ i + 2 <= Len(calls)
        /\ calls[i] = Call("probe.program", <<hex>>, TRUE)
        /\ calls[i + 1] = Call("probe.verify", <<hex>>, TRUE)
        /\ calls[i + 2] = Call("probe.reset", <<>>, TRUE)}

ProbeCallNames ==
    {"api.open", "api.get_connected_probes", "HighLevel.DebugProbe",
     "probe.program", "probe.verify", "probe.reset"}

(* C19: a run that exits 0 made as many program, verify and reset calls   *)
(* as flashing options are set, in sequences of three: with program_hex   *)
(* one of the bundled image that ends before the channel is opened, with  *)
(* program_app one of that image that starts after the credential call    *)
(* returned; with neither option set it made no call on the probe at all. *)
C19_OneFlashSequencePerOption ==
    ExitedWith(0) =>
        LET a == args[1]
            n == FlashingOptionsSet(a)
        IN  /\ Count("probe.program") = n
            /\ Count("probe.verify") = n
            /\ Count("probe.reset") = n
            /\ a.program_hex =>
                  \E i \in FlashSequences(PREBUILT_HEX_PATH) :
                     \A j \in Indices("at.SoC") : i + 2 < j
            /\ Given(a.program_app) =>
                  \E i \in FlashSequences(a.program_app[1]) :
                     \E k \in CredentialIndices : calls[k].ok /\ k < i
            /\ n = 0 => \A i \in DOMAIN calls : calls[i].call \notin ProbeCallNames

(* The positions of the post-flash's program calls: those made after the  *)
(* channel was opened (line 230).                                         *)
PostFlashPrograms ==
    {i \in Indices("probe.program") : \E j \in Indices("at.SoC") : j < i}

(* C20: in a run with program_app whose credential call returned and      *)
(* that exits 0, the post-flash program + verify + reset is made before   *)
(* the channel is closed, and the channel is closed before the            *)
(* debug-probe connection is.                                             *)
C20_PostFlashBeforeChannelClose ==
    (ExitedWith(0) /\ Given(args[1].program_app)
     /\ \E k \in CredentialIndices : calls[k].ok) =>
        /\ \E i \in FlashSequences(args[1].program_app[1]) :
              \A c \in Indices("soc.close") : i + 2 < c
        /\ \A c \in Indices("soc.close") :
              \A p \in Indices("api.close") : c < p

(* C20 as amended: the channel is closed when _communicate is left, so    *)
(* every call of the post-flash comes after a close of the channel that   *)
(* returned; the post-flash and the close of the channel both come before *)
(* every close of the debug-probe connection.                             *)
C20_ChannelClosedBeforePostFlash ==
    /\ \A i \in PostFlashPrograms :
          \E c \in Returned("soc.close") : c < i
    /\ caller = "post" => Returned("soc.close") # {}
    /\ \A p \in Indices("api.close") :
          \A k \in Indices("soc.close") \cup Indices("probe.program")
                   \cup Indices("probe.verify") \cup Indices("probe.reset") : k < p

(* A run with program_app whose credential call returned, that closed the *)
(* channel, made the post-flash, closed the probe connection and exited 0. *)
C20_Witness ==
    /\ ExitedWith(0)
    /\ Given(args[1].program_app)
    /\ \E k \in CredentialIndices : calls[k].ok
    /\ PostFlashPrograms # {}
    /\ Count("soc.close") = 1
    /\ Returned("api.close") # {}

Next ==
    \/ AddAndParseArgs
    \/ ApiOpen
    \/ GetConnectedProbes
    \/ SelectProbe
    \/ CreateDebugProbe
    \/ Program
    \/ Verify
    \/ Reset
    \/ Sleep
    \/ SocOpen
    \/ GetFunctionalMode
    \/ SetFunctionalMode
    \/ Dispatch
    \/ Finally
    \/ CloseAndExit0
    \/ ExceptHandler

Spec == Init /\ [][Next]_vars
====
